---- MODULE Spec2Model ----
(***************************************************************************)
(* KeyService (src/services/keyService/key.service.ts, first class of the  *)
(* file, lines 17-213): the key table, its setKey / delKey contract, the   *)
(* press dispatch with block / delay / hold, the raw key-down / key-up     *)
(* bridge, the debounce timers and the text-capture overlay.               *)
(*                                                                         *)
(* Representation.  An optional value (TypeScript `T | undefined`) is a    *)
(* set with at most one element: {} is undefined, {v} is v.  A key label   *)
(* is the sequence of its character codes, so key.length is Len(k) and     *)
(* key.charCodeAt(0) is k[1]; the capture buffer is the concatenation of   *)
(* such sequences.  A JavaScript Map is a sequence in insertion order.     *)
(***************************************************************************)
EXTENDS Integers, Sequences, FiniteSets, TLC

VARIABLES keyMap, timers, pressedKeys, useKeyboard, keyboardInput,
          ran, published, threw, lastOp, steps

vars == <<keyMap, timers, pressedKeys, useKeyboard, keyboardInput,
          ran, published, threw, lastOp, steps>>

----------------------------------------------------------------------------
(* Bounds and input domains *)

MaxSteps == 2

(* depth of re-entrant press calls at which the call stack is exhausted *)
MaxDepth == 2

None == {}
Some(v) == {v}
Get(m) == CHOOSE v \in m : TRUE

(* "q", "a", "Escape", "é" *)
KeyQ == <<113>>
KeyA == <<97>>
KeyEsc == <<69, 115, 99, 97, 112, 101>>
KeyEacute == <<233>>

Ids == {"a", "quit"}
BindKeys == {KeyQ}
QuitKeys == {KeyQ, KeyEsc}
EventKeys == {KeyQ, KeyA, KeyEsc, KeyEacute}
Delays == {-1, 0, 100}
BehaviorIds == {"b1"}
Behaviors == {"f", "g"}

QuitId == "quit"
QuitBehaviorId == "quittingKeyboard"
QuitBehavior == "quittingKeyboard"

(* a caller's callback that calls press({id}) on the Binding it is
   registered on: `() => keyService.press({id})` *)
Repress == "repress"

Opt(S) == {None} \cup {Some(v) : v \in S}

----------------------------------------------------------------------------
(* Map helpers: a Map is a sequence of entries in insertion order *)

(* the one element of a singleton; The({ e(x) : x \in {v} }) names v as x in e *)
The(S) == CHOOSE x \in S : TRUE

IndexOfId(km, id) ==
    IF \E i \in 1..Len(km) : km[i].id = id
    THEN CHOOSE i \in 1..Len(km) : km[i].id = id
    ELSE 0

MapHas(km, mid) == mid # None /\ IndexOfId(km, Get(mid)) # 0

IndexOfBehavior(bm, bid) ==
    IF \E i \in 1..Len(bm) : bm[i].behaviorId = bid
    THEN CHOOSE i \in 1..Len(bm) : bm[i].behaviorId = bid
    ELSE 0

BehaviorMapHas(bm, mbid) == mbid # None /\ IndexOfBehavior(bm, Get(mbid)) # 0

RemoveAt(seq, i) == SubSeq(seq, 1, i - 1) \o SubSeq(seq, i + 1, Len(seq))

(* getIdByKey: the id of the first entry, in insertion order, whose key is
   strictly equal to the argument (undefined included) *)
getIdByKey(km, key) ==
    IF \E i \in 1..Len(km) : km[i].key = key
    THEN Some(km[CHOOSE i \in 1..Len(km) :
                    km[i].key = key /\ \A j \in 1..(i - 1) : km[j].key # key].id)
    ELSE None

getValues(km, mid) ==
    IF MapHas(km, mid) THEN Some(km[IndexOfId(km, Get(mid))]) ELSE None

getBehaviorMap(km, mid) ==
    IF MapHas(km, mid) THEN Some(km[IndexOfId(km, Get(mid))].behaviorMap) ELSE None

(* `id ? id : this.getIdByKey(key)` of setKey, delKey and press *)
ActualId(km, o) == IF o.id # None THEN o.id ELSE getIdByKey(km, o.key)

----------------------------------------------------------------------------
(* setKey *)

(* lines 72-74 with `if (delay !== undefined)` for `if (delay)`: a supplied
   delay of 0 is written too *)
MergeBindingWritesZeroDelay(v, o) ==
    [id |-> v.id,
     key |-> IF o.key # None THEN o.key ELSE v.key,
     block |-> IF o.block # None THEN Get(o.block) ELSE v.block,
     delay |-> IF o.delay # None THEN Get(o.delay) ELSE v.delay,
     behaviorMap |-> v.behaviorMap]

(* lines 72-74: the fields of an existing Binding that the call overwrites;
   `if (delay)` skips a delay of 0 *)
MergeBinding(v, o) ==
    [id |-> v.id,
     key |-> IF o.key # None THEN o.key ELSE v.key,
     block |-> IF o.block # None THEN Get(o.block) ELSE v.block,
     delay |-> IF o.delay # None /\ Get(o.delay) # 0 THEN Get(o.delay) ELSE v.delay,
     behaviorMap |-> v.behaviorMap]

(* line 77: the Binding a call creates *)
NewBinding(id, o) ==
    [id |-> id,
     key |-> o.key,
     block |-> IF o.block # None THEN Get(o.block) ELSE FALSE,
     delay |-> IF o.delay # None THEN Get(o.delay) ELSE 0,
     behaviorMap |-> <<>>]

(* lines 68-77: merge into the Binding of the resolved id, or create it *)
SetBinding(km, o) ==
    IF MapHas(km, ActualId(km, o))
    THEN [km EXCEPT ![IndexOfId(km, Get(ActualId(km, o)))] = MergeBinding(@, o)]
    ELSE Append(km, NewBinding(Get(ActualId(km, o)), o))

(* lines 85-86: the fields of an existing Behavior that the call overwrites *)
MergeBehavior(w, o) ==
    [behaviorId |-> w.behaviorId,
     mute |-> IF o.mute # None THEN Get(o.mute) ELSE w.mute,
     behavior |-> IF o.behavior # None THEN Get(o.behavior) ELSE w.behavior]

(* lines 81-89 without the test of line 81: a supplied behavior is always
   inserted as a new entry *)
SetBehaviorAlwaysInsert(bm, o) ==
    IF o.behavior # None
    THEN Append(bm, [behaviorId |-> Get(o.behaviorId),
                     mute |-> IF o.mute # None THEN Get(o.mute) ELSE FALSE,
                     behavior |-> Get(o.behavior)])
    ELSE bm

(* lines 81-89: merge into the Behavior named by the call, or insert it *)
SetBehavior(bm, o) ==
    IF BehaviorMapHas(bm, o.behaviorId)
    THEN [bm EXCEPT ![IndexOfBehavior(bm, Get(o.behaviorId))] = MergeBehavior(@, o)]
    ELSE IF o.behavior # None
    THEN Append(bm, [behaviorId |-> Get(o.behaviorId),
                     mute |-> IF o.mute # None THEN Get(o.mute) ELSE FALSE,
                     behavior |-> Get(o.behavior)])
    ELSE bm

(* lines 91-93 left out: mute without behaviorId changes no Behavior *)
MuteAllIgnored(bm, o) == bm

(* lines 91-93: mute without behaviorId sets the mute of every Behavior *)
MuteAll(bm, o) ==
    IF o.mute # None /\ o.behaviorId = None
    THEN [j \in 1..Len(bm) |-> [bm[j] EXCEPT !.mute = Get(o.mute)]]
    ELSE bm

(* lines 79-93 on the Binding v *)
SetBehaviors(v, o) ==
    [[v EXCEPT !.behaviorMap = SetBehavior(@, o)] EXCEPT !.behaviorMap = MuteAll(@, o)]

(* setKey, the final else branch (lines 64-94) *)
SetKeyMerge(km, o) ==
    The({ [km1 EXCEPT ![IndexOfId(km1, Get(ActualId(km, o)))] = SetBehaviors(@, o)] :
          km1 \in {SetBinding(km, o)} })

NoOption == [id |-> None, key |-> None, block |-> None, delay |-> None,
             behaviorId |-> None, mute |-> None, behavior |-> None]

(* setKey with an id or a key: the error branches of lines 56-63, then the
   merge *)
SetKeyNamed(km, o) ==
    IF o.id = None /\ o.key = None THEN km
    ELSE IF o.id = None /\ o.key # None /\ ~MapHas(km, getIdByKey(km, o.key)) THEN km
    ELSE IF o.behavior # None /\ o.behaviorId = None THEN km
    ELSE IF o.behaviorId # None /\ o.behavior = None /\ o.mute = None THEN km
    ELSE SetKeyMerge(km, o)

(* the loop of lines 54-55: setKey({id, mute}) for each id of the table, in
   insertion order; no id is empty, so each call takes a named branch *)
RECURSIVE SetKeyEach(_, _, _)
SetKeyEach(km, ids, mute) ==
    IF ids = <<>> THEN km
    ELSE The({ SetKeyEach(km1, Tail(ids), mute) :
               km1 \in {SetKeyNamed(km, [NoOption EXCEPT !.id = Some(Head(ids)),
                                                         !.mute = mute])} })

(* setKey (lines 49-95) on the key table *)
setKey(km, o) ==
    IF o.id = None /\ o.key = None /\ o.mute # None
    THEN SetKeyEach(km, [i \in 1..Len(km) |-> km[i].id], o.mute)
    ELSE SetKeyNamed(km, o)

----------------------------------------------------------------------------
(* delKey *)

(* lines 112-119 with the fallback of the sibling design: an unknown
   behaviorId deletes the whole Binding *)
DelKeyFoundFallbackDelete(km, id, o) ==
    IF o.behaviorId = None
    THEN RemoveAt(km, IndexOfId(km, id))
    ELSE IF BehaviorMapHas(km[IndexOfId(km, id)].behaviorMap, o.behaviorId)
    THEN [km EXCEPT ![IndexOfId(km, id)].behaviorMap =
              RemoveAt(@, IndexOfBehavior(@, Get(o.behaviorId)))]
    ELSE RemoveAt(km, IndexOfId(km, id))

(* lines 112-119 whose first test forgets behaviorId: the Binding is deleted
   also when a Behavior of it is named *)
DelKeyFoundIgnoresBehaviorId(km, id, o) ==
    IF o.behaviorId = None
       \/ BehaviorMapHas(km[IndexOfId(km, id)].behaviorMap, o.behaviorId)
    THEN RemoveAt(km, IndexOfId(km, id))
    ELSE km

(* lines 112-119: the Binding of id exists and id is not empty *)
DelKeyFound(km, id, o) ==
    IF o.behaviorId = None
    THEN RemoveAt(km, IndexOfId(km, id))
    ELSE IF BehaviorMapHas(km[IndexOfId(km, id)].behaviorMap, o.behaviorId)
    THEN [km EXCEPT ![IndexOfId(km, id)].behaviorMap =
              RemoveAt(@, IndexOfBehavior(@, Get(o.behaviorId)))]
    ELSE IF ~BehaviorMapHas(km[IndexOfId(km, id)].behaviorMap, o.behaviorId)
    THEN km
    ELSE RemoveAt(km, IndexOfId(km, id))

(* delKey (lines 96-122) on the key table *)
delKey(km, o) ==
    IF o.id = None /\ o.key = None THEN km
    ELSE IF o.id # None /\ ~MapHas(km, o.id) THEN km
    ELSE IF o.id = None /\ o.key # None /\ getIdByKey(km, o.key) = None THEN km
    ELSE IF MapHas(km, ActualId(km, o))
    THEN DelKeyFound(km, Get(ActualId(km, o)), o)
    ELSE km

----------------------------------------------------------------------------
(* Timers.  The callback of setTimeout (line 183) holds the Binding's tuple,
   not its id.  A tuple enters the table only when setKey creates it and
   leaves it only when delKey deletes it, so a pending timer targets either
   the tuple now stored under an id, Some(id), or a tuple that is no longer
   in the table, None.  timers counts the pending timers per target. *)

Targets == {Some(id) : id \in Ids} \cup {None}

NoTimers == [t \in Targets |-> 0]

(* the ids whose tuple left the table between km and km2 *)
Gone(km, km2) == {id \in Ids : IndexOfId(km, id) # 0 /\ IndexOfId(km2, id) = 0}

RECURSIVE PendingOn(_, _)
PendingOn(tm, S) ==
    IF S = {} THEN 0
    ELSE The({ tm[Some(x)] + PendingOn(tm, S \ {x}) : x \in {CHOOSE y \in S : TRUE} })

(* timers that would hold the id instead of the tuple: after a delete they
   still target whatever is stored under that id *)
DetachKeepsId(tm, km, km2) == tm

(* the timers after the table went from km to km2: the timers of a deleted
   tuple keep their tuple, which is now outside the table *)
Detach(tm, km, km2) ==
    [t \in Targets |->
        IF t = None THEN tm[None] + PendingOn(tm, Gone(km, km2))
        ELSE IF Get(t) \in Gone(km, km2) THEN 0 ELSE tm[t]]

----------------------------------------------------------------------------
(* The service as a value, for the methods that call one another.  ran is
   the log of the behaviors invoked during the current call, threw records
   a TypeError raised by it. *)

Service(km, tm, uk, ki, rn, th) ==
    [keyMap |-> km, timers |-> tm, useKeyboard |-> uk, keyboardInput |-> ki,
     ran |-> rn, threw |-> th, depth |-> 0]

(* line 203 without line 202: the exit leaves the mute flags as they are *)
QuitTableKeepsMute(km) ==
    delKey(km, [id |-> Some(QuitId), key |-> None, behaviorId |-> Some(QuitBehaviorId)])

(* lines 202-203 on the key table *)
QuitTable(km) ==
    The({ delKey(km1, [id |-> Some(QuitId), key |-> None,
                       behaviorId |-> Some(QuitBehaviorId)]) :
          km1 \in {setKey(km, [NoOption EXCEPT !.mute = Some(FALSE)])} })

(* quittingKeyboard (lines 200-206) *)
quittingKeyboard(s) ==
    The({ [s EXCEPT !.keyMap = km2,
                    !.timers = Detach(@, s.keyMap, km2),
                    !.useKeyboard = FALSE,
                    !.keyboardInput = <<>>] :
          km2 \in {QuitTable(s.keyMap)} })

(* lines 196-197 on the key table *)
CaptureTable(km, quit) ==
    The({ setKey(km1, [NoOption EXCEPT !.id = Some(QuitId), !.key = quit,
                                       !.behaviorId = Some(QuitBehaviorId),
                                       !.behavior = Some(QuitBehavior)]) :
          km1 \in {setKey(km, [NoOption EXCEPT !.mute = Some(TRUE)])} })

(* usingKeyboard (lines 194-199) *)
usingKeyboard(s, quit) ==
    [s EXCEPT !.keyMap = CaptureTable(@, quit), !.useKeyboard = TRUE]

RECURSIVE press(_, _)

(* the callback Repress: press({id}) from inside a dispatch.  Past MaxDepth
   nested calls the stack is exhausted and a RangeError is raised. *)
Reenter(s, id) ==
    IF s.depth >= MaxDepth THEN [s EXCEPT !.threw = TRUE]
    ELSE [press([s EXCEPT !.depth = @ + 1], [id |-> Some(id), key |-> None])
             EXCEPT !.depth = s.depth]

(* one behavior callback (line 187): the closure registered by usingKeyboard
   calls quittingKeyboard, Repress calls press, any other callback is the
   caller's and does not touch the service *)
CallBehavior(s, id, entry) ==
    The({ IF entry.behavior = QuitBehavior THEN quittingKeyboard(s1)
          ELSE IF entry.behavior = Repress THEN Reenter(s1, id)
          ELSE s1 :
          s1 \in {[s EXCEPT !.ran = Append(@, <<id, entry.behaviorId, entry.behavior>>)]} })

(* the Behavior Table of the Binding id *)
BehaviorsOf(s, id) == s.keyMap[IndexOfId(s.keyMap, id)].behaviorMap

(* where a Map iterator goes on after the entry bid at position j: behind
   bid, or at j when the callback deleted bid *)
NextEntry(bm, bid, j) ==
    IF IndexOfBehavior(bm, bid) = 0 THEN j ELSE IndexOfBehavior(bm, bid) + 1

(* the loop of press (lines 185-187) over the live Behavior Table of id, from
   its j-th entry on; an exception raised by a callback is not caught and
   ends the loop *)
RECURSIVE RunBehaviors(_, _, _)
RunBehaviors(s, id, j) ==
    IF j > Len(BehaviorsOf(s, id)) THEN s
    ELSE The({ IF s1.threw THEN s1
               ELSE RunBehaviors(s1, id,
                            NextEntry(BehaviorsOf(s1, id), BehaviorsOf(s, id)[j].behaviorId, j)) :
               s1 \in {IF ~BehaviorsOf(s, id)[j].mute
                       THEN CallBehavior(s, id, BehaviorsOf(s, id)[j])
                       ELSE s} })

SetBlock(s, id, b) ==
    [s EXCEPT !.keyMap = [i \in 1..Len(@) |->
                             IF @[i].id = id THEN [@[i] EXCEPT !.block = b] ELSE @[i]]]

(* lines 181-184: a positive delay blocks the Binding and starts a timer *)
BeforeBehaviors(s, id, delay) ==
    IF delay # 0 /\ delay >= 0
    THEN [SetBlock(s, id, TRUE) EXCEPT !.timers[Some(id)] = @ + 1]
    ELSE s

(* press without lines 188-189: a hold Binding is never blocked *)
AfterBehaviorsWithoutHold(s, id, delay) == s

(* lines 188-189: a negative delay blocks the Binding after the behaviors *)
AfterBehaviors(s, id, delay) ==
    IF delay # 0 /\ delay < 0 THEN SetBlock(s, id, TRUE) ELSE s

(* press with lines 181-184 moved behind the loop: block is set and the
   timer is scheduled after the behaviors ran *)
DispatchBlocksLate(s, id) ==
    The({ The({ IF s2.threw THEN s2
                ELSE AfterBehaviors(BeforeBehaviors(s2, id, delay), id, delay) :
                s2 \in {RunBehaviors(s, id, 1)} }) :
          delay \in {s.keyMap[IndexOfId(s.keyMap, id)].delay} })

(* press, lines 178-189: the dispatch on an existing, unblocked Binding; an
   exception raised in the loop leaves press before line 188 *)
Dispatch(s, id) ==
    The({ The({ The({ IF s2.threw THEN s2 ELSE AfterBehaviors(s2, id, delay) :
                      s2 \in {RunBehaviors(s1, id, 1)} }) :
                s1 \in {BeforeBehaviors(s, id, delay)} }) :
          delay \in {s.keyMap[IndexOfId(s.keyMap, id)].delay} })

(* press (lines 164-192).  An id that is not in the table makes getValues
   return undefined and line 176 reads a field of it: a TypeError. *)
press(s, o) ==
    IF ActualId(s.keyMap, o) = None THEN s
    ELSE IF getValues(s.keyMap, ActualId(s.keyMap, o)) = None THEN [s EXCEPT !.threw = TRUE]
    ELSE IF ~Get(getValues(s.keyMap, ActualId(s.keyMap, o))).block
    THEN Dispatch(s, Get(ActualId(s.keyMap, o)))
    ELSE s

----------------------------------------------------------------------------
(* Inputs of the calls *)

(* the call that registers a key with its delay and one behavior, as in
   setKey({id, key: "q", delay, behaviorId: "b1", mute, behavior: f}) *)
Bind(id, delay, mute) ==
    [id |-> Some(id), key |-> Some(KeyQ), block |-> None, delay |-> Some(delay),
     behaviorId |-> Some("b1"), mute |-> mute, behavior |-> Some("f")]

(* setKey is called with the fields of the Binding (block, delay), or with
   the fields of a Behavior (behaviorId, mute, behavior), or with the
   registering call above *)
SetKeyOptions ==
    {o \in [id : Opt(Ids), key : Opt(BindKeys), block : Opt(BOOLEAN), delay : Opt(Delays),
            behaviorId : Opt(BehaviorIds), mute : Opt(BOOLEAN), behavior : Opt(Behaviors)] :
        \/ o.behaviorId = None /\ o.mute = None /\ o.behavior = None
        \/ o.block = None /\ o.delay = None}
    \cup {Bind(id, d, None) : id \in Ids, d \in Delays}

DelKeyOptions ==
    [id : Opt(Ids), key : Opt(BindKeys), behaviorId : Opt(BehaviorIds \cup {QuitBehaviorId})]

PressOptions == [id : Opt(Ids), key : Opt(BindKeys)]

----------------------------------------------------------------------------
(* State after construction (lines 28-45) and set-up *)

Constructed == Service(<<>>, NoTimers, FALSE, <<>>, <<>>, FALSE)

AfterSetKey(s, o) == [s EXCEPT !.keyMap = setKey(@, o)]

(* Set-ups: the service after construction and a few calls, each computed
   with the operators above, so that runs of MaxSteps further calls and
   events start from a hold Binding, a debounce Binding, an individually
   muted Behavior and an active capture *)
SetUps ==
    { Constructed,
      AfterSetKey(Constructed, Bind("a", -1, None)),
      AfterSetKey(Constructed, Bind("a", 100, None)),
      AfterSetKey(Constructed, Bind("a", 0, Some(TRUE))),
      usingKeyboard(AfterSetKey(Constructed, Bind("a", 0, None)), Some(KeyEsc)) }

Init ==
    /\ \E s \in SetUps :
          /\ keyMap = s.keyMap
          /\ timers = s.timers
          /\ useKeyboard = s.useKeyboard
          /\ keyboardInput = s.keyboardInput
    /\ pressedKeys = {}
    /\ ran = <<>>
    /\ published = <<>>
    /\ threw = FALSE
    /\ lastOp = [op |-> "setup"]
    /\ steps = 0

Current == Service(keyMap, timers, useKeyboard, keyboardInput, <<>>, FALSE)

(* the variables after a call that left the service as s *)
Commit(s) ==
    /\ keyMap' = s.keyMap
    /\ timers' = s.timers
    /\ useKeyboard' = s.useKeyboard
    /\ keyboardInput' = s.keyboardInput
    /\ ran' = s.ran
    /\ threw' = s.threw
    /\ steps' = steps + 1

SetKey(o) ==
    /\ steps < MaxSteps
    /\ \E s \in {AfterSetKey(Current, o)} : Commit(s)
    /\ lastOp' = [op |-> "setKey", arg |-> o]
    /\ UNCHANGED <<pressedKeys>>
    /\ published' = <<>>

DelKey(o) ==
    /\ steps < MaxSteps
    /\ \E km2 \in {delKey(keyMap, o)} :
          Commit([Current EXCEPT !.keyMap = km2, !.timers = Detach(@, keyMap, km2)])
    /\ lastOp' = [op |-> "delKey", arg |-> o]
    /\ UNCHANGED <<pressedKeys>>
    /\ published' = <<>>

Press(o) ==
    /\ steps < MaxSteps
    /\ \E s \in {press(Current, o)} : Commit(s)
    /\ lastOp' = [op |-> "press", arg |-> o]
    /\ UNCHANGED <<pressedKeys>>
    /\ published' = <<>>

UsingKeyboard(quit) ==
    /\ steps < MaxSteps
    /\ \E s \in {usingKeyboard(Current, Some(quit))} : Commit(s)
    /\ lastOp' = [op |-> "usingKeyboard", arg |-> quit]
    /\ UNCHANGED <<pressedKeys>>
    /\ published' = <<>>

(* the test of line 35 without its upper bound *)
PrintableNoUpperBound(key) == Len(key) = 1 /\ key[1] >= 32

(* is key a single printable character (line 35) *)
Printable(key) == Len(key) = 1 /\ key[1] >= 32 /\ key[1] <= 126

(* the keydown handler (lines 34-39) *)
KeyDown(key) ==
    /\ steps < MaxSteps
    /\ \E input \in {IF useKeyboard /\ Printable(key)
                     THEN keyboardInput \o key ELSE keyboardInput} :
          /\ published' = IF useKeyboard /\ Printable(key) THEN <<input>> ELSE <<>>
          /\ \E s \in {press([Current EXCEPT !.keyboardInput = input],
                             [id |-> None, key |-> Some(key)])} : Commit(s)
    /\ pressedKeys' = pressedKeys \cup {key}
    /\ lastOp' = [op |-> "keydown", arg |-> key]

(* the test of line 42, `delay ?? 0 < 0`: `<` binds tighter than `??`, so it
   reads delay ?? (0 < 0), and delay is never undefined in a stored tuple:
   the test is the truthiness of delay *)
KeyUpTest(delay) == delay # 0

(* the keyup handler (lines 40-44) *)
KeyUp(key) ==
    /\ steps < MaxSteps
    /\ pressedKeys' = pressedKeys \ {key}
    /\ \E mid \in {getIdByKey(keyMap, Some(key))} :
          Commit(IF MapHas(keyMap, mid) /\ KeyUpTest(Get(getValues(keyMap, mid)).delay)
                 THEN SetBlock(Current, Get(mid), FALSE)
                 ELSE Current)
    /\ lastOp' = [op |-> "keyup", arg |-> key]
    /\ published' = <<>>

(* a timer callback that looks its Binding up by id when it expires, as in
   `this.getValues({id})![Select.block] = false`: on a deleted Binding it
   reads a field of undefined *)
TimerFireLooksUp(t) ==
    /\ steps < MaxSteps
    /\ timers[t] > 0
    /\ Commit(IF t # None
              THEN SetBlock([Current EXCEPT !.timers[t] = @ - 1], Get(t), FALSE)
              ELSE [Current EXCEPT !.timers[t] = @ - 1, !.threw = TRUE])
    /\ lastOp' = [op |-> "timer", arg |-> t]
    /\ UNCHANGED <<pressedKeys>>
    /\ published' = <<>>

(* a pending timer expires: the callback of line 183 clears block on the
   tuple it holds *)
TimerFire(t) ==
    /\ steps < MaxSteps
    /\ timers[t] > 0
    /\ Commit(IF t # None
              THEN SetBlock([Current EXCEPT !.timers[t] = @ - 1], Get(t), FALSE)
              ELSE [Current EXCEPT !.timers[t] = @ - 1])
    /\ lastOp' = [op |-> "timer", arg |-> t]
    /\ UNCHANGED <<pressedKeys>>
    /\ published' = <<>>

Next ==
    \/ \E o \in SetKeyOptions : SetKey(o)
    \/ \E o \in DelKeyOptions : DelKey(o)
    \/ \E o \in PressOptions : Press(o)
    \/ \E q \in QuitKeys : UsingKeyboard(q)
    \/ \E k \in EventKeys : KeyDown(k)
    \/ \E k \in EventKeys : KeyUp(k)
    \/ \E t \in Targets : TimerFire(t)

Spec == Init /\ [][Next]_vars

----------------------------------------------------------------------------
(* Runs that start with a debounce timer pending *)

(* the service s after delKey(o) *)
AfterDelKey(s, o) ==
    The({ [s EXCEPT !.keyMap = km2, !.timers = Detach(@, s.keyMap, km2)] :
          km2 \in {delKey(s.keyMap, o)} })

(* the debounce Binding "a" dispatched by id: blocked, its timer pending *)
Debounced ==
    press(AfterSetKey(Constructed, Bind("a", 100, None)), [id |-> Some("a"), key |-> None])

(* then turned into a hold Binding and unblocked by
   setKey({id: "a", block: false, delay: -1}); the timer is still pending
   on the same tuple *)
StaleHold ==
    AfterSetKey(Debounced, [NoOption EXCEPT !.id = Some("a"), !.block = Some(FALSE),
                                            !.delay = Some(-1)])

(* or deleted by delKey({id: "a"}); the timer is still pending on the
   deleted tuple *)
Deleted == AfterDelKey(Debounced, [id |-> Some("a"), key |-> None, behaviorId |-> None])

(* and then created again under the same id *)
Recreated == AfterSetKey(Deleted, Bind("a", 100, None))

TimerSetUps == {Debounced, StaleHold, Deleted, Recreated}

InitTimers ==
    /\ \E s \in TimerSetUps :
          /\ keyMap = s.keyMap
          /\ timers = s.timers
          /\ useKeyboard = s.useKeyboard
          /\ keyboardInput = s.keyboardInput
    /\ pressedKeys = {}
    /\ ran = <<>>
    /\ published = <<>>
    /\ threw = FALSE
    /\ lastOp = [op |-> "setup"]
    /\ steps = 0

SpecTimers == InitTimers /\ [][Next]_vars

----------------------------------------------------------------------------
(* Runs that start with two behaviors on the Binding "a" *)

(* the service s after setKey({id: "a", behaviorId: "b2", behavior: fn}) *)
WithSecond(s, fn) ==
    AfterSetKey(s, [NoOption EXCEPT !.id = Some("a"), !.behaviorId = Some("b2"),
                                    !.behavior = Some(fn)])

(* a debounce and a hold Binding whose second behavior presses the Binding
   again, a plain and a hold Binding with two callbacks of the caller *)
OrderSetUps ==
    { WithSecond(AfterSetKey(Constructed, Bind("a", 100, None)), Repress),
      WithSecond(AfterSetKey(Constructed, Bind("a", -1, None)), Repress),
      WithSecond(AfterSetKey(Constructed, Bind("a", 0, None)), "g"),
      WithSecond(AfterSetKey(Constructed, Bind("a", -1, None)), "g") }

InitOrder ==
    /\ \E s \in OrderSetUps :
          /\ keyMap = s.keyMap
          /\ timers = s.timers
          /\ useKeyboard = s.useKeyboard
          /\ keyboardInput = s.keyboardInput
    /\ pressedKeys = {}
    /\ ran = <<>>
    /\ published = <<>>
    /\ threw = FALSE
    /\ lastOp = [op |-> "setup"]
    /\ steps = 0

SpecOrder == InitOrder /\ [][Next]_vars

----------------------------------------------------------------------------
(* Runs that start around the capture overlay *)

(* the debounce Binding "a" with its behavior muted by the caller, no
   capture *)
MutedByCaller == AfterSetKey(Constructed, Bind("a", 100, Some(TRUE)))

(* capture entered on an empty Key Table, the muted Binding "a" before
   capture, and capture entered on it *)
CaptureSetUps ==
    { usingKeyboard(Constructed, Some(KeyEsc)),
      MutedByCaller,
      usingKeyboard(MutedByCaller, Some(KeyEsc)) }

InitCapture ==
    /\ \E s \in CaptureSetUps :
          /\ keyMap = s.keyMap
          /\ timers = s.timers
          /\ useKeyboard = s.useKeyboard
          /\ keyboardInput = s.keyboardInput
    /\ pressedKeys = {}
    /\ ran = <<>>
    /\ published = <<>>
    /\ threw = FALSE
    /\ lastOp = [op |-> "setup"]
    /\ steps = 0

SpecCapture == InitCapture /\ [][Next]_vars

----------------------------------------------------------------------------
(* Runs in which every scheduled timer expires and every key that is down
   is released: the calls and key-downs are bounded by MaxSteps, the expiry
   of a pending timer and the release of a key that is down are not *)

(* a pending timer expires (the callback of line 183) *)
Expire(t) ==
    /\ timers[t] > 0
    /\ Commit(IF t # None
              THEN SetBlock([Current EXCEPT !.timers[t] = @ - 1], Get(t), FALSE)
              ELSE [Current EXCEPT !.timers[t] = @ - 1])
    /\ lastOp' = [op |-> "timer", arg |-> t]
    /\ UNCHANGED <<pressedKeys>>
    /\ published' = <<>>

(* a key that is down is released (the keyup handler, lines 40-44) *)
Release(key) ==
    /\ key \in pressedKeys
    /\ pressedKeys' = pressedKeys \ {key}
    /\ \E mid \in {getIdByKey(keyMap, Some(key))} :
          Commit(IF MapHas(keyMap, mid) /\ KeyUpTest(Get(getValues(keyMap, mid)).delay)
                 THEN SetBlock(Current, Get(mid), FALSE)
                 ELSE Current)
    /\ lastOp' = [op |-> "keyup", arg |-> key]
    /\ published' = <<>>

(* a hold Binding and a debounce Binding, idle *)
LiveSetUps ==
    { AfterSetKey(Constructed, Bind("a", -1, None)),
      AfterSetKey(Constructed, Bind("a", 100, None)) }

InitLive ==
    /\ \E s \in LiveSetUps :
          /\ keyMap = s.keyMap
          /\ timers = s.timers
          /\ useKeyboard = s.useKeyboard
          /\ keyboardInput = s.keyboardInput
    /\ pressedKeys = {}
    /\ ran = <<>>
    /\ published = <<>>
    /\ threw = FALSE
    /\ lastOp = [op |-> "setup"]
    /\ steps = 0

NextLive ==
    \/ \E o \in SetKeyOptions : SetKey(o)
    \/ \E o \in DelKeyOptions : DelKey(o)
    \/ \E o \in PressOptions : Press(o)
    \/ \E q \in QuitKeys : UsingKeyboard(q)
    \/ \E k \in EventKeys : KeyDown(k)
    \/ \E k \in EventKeys : Release(k)
    \/ \E t \in Targets : Expire(t)

SpecLive ==
    /\ InitLive
    /\ [][NextLive]_vars
    /\ \A t \in Targets : WF_vars(Expire(t))
    /\ \A k \in EventKeys : WF_vars(Release(k))

----------------------------------------------------------------------------
(* Claims *)

BindingOf(km, id) == km[IndexOfId(km, id)]

(* how many times the behavior bid of Binding id was invoked in the log rn *)
Runs(rn, id, bid) == Cardinality({n \in 1..Len(rn) : rn[n][1] = id /\ rn[n][2] = bid})

QuitRan(rn) == \E n \in 1..Len(rn) : rn[n][3] = QuitBehavior

(* C1: in every reachable state, for every physical key k at most one
   Binding of the Key Table has key equal to k. *)
C1_UniqueKey ==
    \A i, j \in 1..Len(keyMap) :
        (i # j /\ keyMap[i].key # None) => keyMap[i].key # keyMap[j].key

(* C2: hold semantics.  For the Binding that key k resolves to, with delay
   -1, whose block flag agrees with the key being down (as it does when the
   Binding is set up idle and only raw key-down(k) / key-up(k) events
   follow): a key-down(k) while k is up, the first of a cycle, runs every
   unmuted behavior of the Binding exactly once; a key-down(k) while k is
   still down runs none; key-up(k) runs none; and after either event block
   again agrees with the key being down, so the next cycle fires again. *)
C2_HoldCycle ==
    [][\A k \in EventKeys :
        LET mid == getIdByKey(keyMap, Some(k))
        IN  ( /\ lastOp'.op \in {"keydown", "keyup"}
              /\ lastOp'.arg = k
              /\ mid # None
              /\ BindingOf(keyMap, Get(mid)).delay = -1
              /\ BindingOf(keyMap, Get(mid)).block = (k \in pressedKeys) )
            => LET id == Get(mid)
                   bm == BindingOf(keyMap, id).behaviorMap
               IN  /\ MapHas(keyMap', mid)
                   /\ BindingOf(keyMap', id).delay = -1
                   /\ BindingOf(keyMap', id).block = (k \in pressedKeys')
                   /\ pressedKeys' = IF lastOp'.op = "keydown"
                                     THEN pressedKeys \cup {k} ELSE pressedKeys \ {k}
                   /\ \A j \in 1..Len(bm) :
                        ~bm[j].mute =>
                            Runs(ran', id, bm[j].behaviorId) =
                                IF lastOp'.op = "keydown" /\ k \notin pressedKeys
                                THEN 1 ELSE 0
    ]_vars

(* C2 witness: the first key-down of a cycle has run f on the hold Binding
   and left it blocked with its key down *)
C2_HoldFired ==
    /\ lastOp.op = "keydown"
    /\ lastOp.arg = KeyQ
    /\ getIdByKey(keyMap, Some(KeyQ)) = Some("a")
    /\ BindingOf(keyMap, "a").delay = -1
    /\ BindingOf(keyMap, "a").block
    /\ KeyQ \in pressedKeys
    /\ ran = << <<"a", "b1", "f">> >>

(* C3: debounce.  A key-up never clears the block flag of a Binding with
   delay > 0 whose unblock timer is still pending. *)
C3_KeyUpKeepsDebounceBlock ==
    [][lastOp'.op = "keyup" =>
        \A id \in Ids :
            ( /\ IndexOfId(keyMap, id) # 0
              /\ BindingOf(keyMap, id).delay > 0
              /\ BindingOf(keyMap, id).block
              /\ timers[Some(id)] > 0 )
            => BindingOf(keyMap', id).block
    ]_vars

(* C4: while capture is active right after usingKeyboard(q), a raw key-down
   of q runs the quit behavior and ends capture mode, whatever the Key Table
   held before and however many usingKeyboard calls were made. *)
C4_QuitKeyExits ==
    [][( /\ lastOp.op = "usingKeyboard"
         /\ useKeyboard
         /\ lastOp'.op = "keydown"
         /\ lastOp'.arg = lastOp.arg )
        => (QuitRan(ran') /\ ~useKeyboard')
    ]_vars

(* C5: after the quit behavior has fired, the Key Table holds no Binding
   with id "quit", capture-active is false and the buffer is empty. *)
C5_ExitRemovesQuitBinding ==
    QuitRan(ran) =>
        /\ ~MapHas(keyMap, Some(QuitId))
        /\ ~useKeyboard
        /\ keyboardInput = <<>>

(* the claim's test of a single printable character: one character whose
   code is in 32..126 *)
SinglePrintable(k) == Len(k) = 1 /\ k[1] \in 32..126

(* C6 as stated: while capture is active every raw key-down of a single
   printable character appends that character to the buffer and publishes
   the new buffer exactly once; every other key-down leaves the buffer
   unchanged and publishes nothing. *)
C6_KeyDownAppends ==
    [][lastOp'.op = "keydown" =>
        LET k == lastOp'.arg
        IN  IF useKeyboard /\ SinglePrintable(k)
            THEN /\ keyboardInput' = keyboardInput \o k
                 /\ published' = <<keyboardInput \o k>>
            ELSE /\ keyboardInput' = keyboardInput
                 /\ published' = <<>>
    ]_vars

(* C6 as amended: the same, except that a key-down that fires the quit
   behavior leaves the buffer empty; a printable quit key is still published
   once, appended to the buffer, before the exit clears it. *)
C6_KeyDownAppendsUnlessQuit ==
    [][lastOp'.op = "keydown" =>
        LET k == lastOp'.arg
            accepted == useKeyboard /\ SinglePrintable(k)
        IN  /\ published' = IF accepted THEN <<keyboardInput \o k>> ELSE <<>>
            /\ keyboardInput' = IF QuitRan(ran') THEN <<>>
                                ELSE IF accepted THEN keyboardInput \o k
                                ELSE keyboardInput
            /\ QuitRan(ran') => (useKeyboard /\ ~useKeyboard')
    ]_vars

(* C6 witness: capture is active and key-down "a" then "q" left the buffer
   "aq", published by the second key-down *)
C6_TwoKeysCaptured ==
    /\ lastOp.op = "keydown"
    /\ useKeyboard
    /\ keyboardInput = KeyA \o KeyQ
    /\ published = <<KeyA \o KeyQ>>

(* does the press option o fail to name a Binding of the table km: an id
   that is not in the table, a key no Binding is bound to, or neither *)
Unresolved(km, o) ==
    \/ o.id # None /\ ~MapHas(km, o.id)
    \/ o.id = None /\ o.key # None /\ ~\E i \in 1..Len(km) : km[i].key = o.key
    \/ o.id = None /\ o.key = None

(* C7: a press call that does not resolve to an existing Binding is a
   no-op: no behavior runs, nothing changes, no timer is scheduled and no
   exception is raised. *)
C7_UnresolvedPressNoOp ==
    [][(lastOp'.op = "press" /\ Unresolved(keyMap, lastOp'.arg)) =>
        /\ ~threw'
        /\ ran' = <<>>
        /\ UNCHANGED <<keyMap, timers, pressedKeys, useKeyboard, keyboardInput>>
    ]_vars

(* the failing cases of setKey as the claim lists them *)
FailsValidation(km, o) ==
    \/ o.id = None /\ o.key = None /\ o.mute = None
    \/ o.id = None /\ o.key # None /\ ~\E i \in 1..Len(km) : km[i].key = o.key
    \/ o.behavior # None /\ o.behaviorId = None
    \/ o.behaviorId # None /\ o.behavior = None /\ o.mute = None

(* C8: a setKey call that fails validation leaves the Key Table and every
   Behavior Table unchanged. *)
C8_InvalidSetKeyNoOp ==
    [][(lastOp'.op = "setKey" /\ FailsValidation(keyMap, lastOp'.arg)) =>
        keyMap' = keyMap
    ]_vars

(* the Binding a delKey option names in km, by id first and else by key:
   its index, or 0 *)
Named(km, o) ==
    IF o.id # None THEN IndexOfId(km, Get(o.id))
    ELSE IF o.key # None /\ \E i \in 1..Len(km) : km[i].key = o.key
    THEN CHOOSE i \in 1..Len(km) :
            /\ km[i].key = o.key
            /\ \A j \in 1..Len(km) : km[j].key = o.key => i <= j
    ELSE 0

HasBehavior(b, mbid) ==
    mbid # None /\ \E j \in 1..Len(b.behaviorMap) : b.behaviorMap[j].behaviorId = Get(mbid)

(* C9: delKey with a behaviorId that is not in the named Binding's Behavior
   Table, with neither id nor key, with an id that is not in the table or
   with an unresolvable key changes nothing. *)
C9_DelKeyErrorNoOp ==
    [][lastOp'.op = "delKey" =>
        LET o == lastOp'.arg
            i == Named(keyMap, o)
        IN  (i = 0 \/ (o.behaviorId # None /\ ~HasBehavior(keyMap[i], o.behaviorId)))
            => UNCHANGED <<keyMap, timers, pressedKeys, useKeyboard, keyboardInput>>
    ]_vars

(* C9 witness: delKey named the Binding "a" and a behaviorId it does not
   hold, and the Binding and its behavior are still there *)
C9_UnknownBehaviorKept ==
    /\ lastOp.op = "delKey"
    /\ lastOp.arg.id = Some("a")
    /\ lastOp.arg.behaviorId = Some(QuitBehaviorId)
    /\ MapHas(keyMap, Some("a"))
    /\ HasBehavior(BindingOf(keyMap, "a"), Some("b1"))

(* C10: delKey on a resolvable Binding without behaviorId removes exactly
   that Binding and no other; with a behaviorId of its Behavior Table it
   removes exactly that behavior and leaves the Binding's key, block, delay
   and other behaviors, and every other Binding, unchanged. *)
C10_DelKeyRemovesExactly ==
    [][lastOp'.op = "delKey" =>
        LET o == lastOp'.arg
            i == Named(keyMap, o)
        IN  /\ (i # 0 /\ o.behaviorId = None) => keyMap' = RemoveAt(keyMap, i)
            /\ (i # 0 /\ HasBehavior(keyMap[i], o.behaviorId)) =>
                  LET bm == keyMap[i].behaviorMap
                      j == CHOOSE j \in 1..Len(bm) : bm[j].behaviorId = Get(o.behaviorId)
                  IN  keyMap' = [keyMap EXCEPT ![i].behaviorMap = RemoveAt(bm, j)]
    ]_vars

(* C10 witness: delKey removed the behavior b1 of the Binding "quit" and
   left its other behavior and the Binding "a" *)
C10_OneBehaviorRemoved ==
    /\ lastOp.op = "delKey"
    /\ lastOp.arg.id = Some(QuitId)
    /\ lastOp.arg.behaviorId = Some("b1")
    /\ MapHas(keyMap, Some("a"))
    /\ MapHas(keyMap, Some(QuitId))
    /\ HasBehavior(BindingOf(keyMap, QuitId), Some(QuitBehaviorId))
    /\ ~HasBehavior(BindingOf(keyMap, QuitId), Some("b1"))
    /\ steps = 2

(* C11: setKey is idempotent.  From every reachable state and for every
   options record o, a setKey(o) step leaves a Key Table (Behavior Tables
   included) that a second setKey(o) made right after it does not change. *)
C11_SetKeyIdempotent ==
    [][lastOp'.op = "setKey" =>
        /\ keyMap' = setKey(keyMap, lastOp'.arg)
        /\ setKey(keyMap', lastOp'.arg) = keyMap'
    ]_vars

(* C11 witness: setKey has just created the Binding "quit" with its behavior
   next to the Binding "a", and the same call again changes nothing *)
C11_CreatedThenSame ==
    /\ lastOp.op = "setKey"
    /\ lastOp.arg = Bind(QuitId, 100, None)
    /\ Len(keyMap) = 2
    /\ keyMap[2] = [id |-> QuitId, key |-> Some(KeyQ), block |-> FALSE, delay |-> 100,
                    behaviorMap |-> << [behaviorId |-> "b1", mute |-> FALSE,
                                        behavior |-> "f"] >>]
    /\ setKey(keyMap, lastOp.arg) = keyMap

(* a setKey call that names a Binding by id and gives mute without
   behaviorId (and so without behavior) *)
BulkMute(o) == o.id # None /\ o.mute # None /\ o.behaviorId = None /\ o.behavior = None

(* the Binding a dispatch resolves to in km: press by id or by key, or a raw
   key-down *)
DispatchTarget(km, op) ==
    IF op.op = "press" THEN (IF op.arg.id # None THEN op.arg.id
                             ELSE getIdByKey(km, op.arg.key))
    ELSE IF op.op = "keydown" THEN getIdByKey(km, Some(op.arg))
    ELSE None

(* the log of a dispatch of id that runs every behavior of bm, in order *)
AllRun(id, bm) == [j \in 1..Len(bm) |-> <<id, bm[j].behaviorId, bm[j].behavior>>]

(* C12: bulk mute.  setKey({id, mute}) without behaviorId sets mute on every
   behavior of the Binding id, removes none of them and touches no behavior
   of another Binding; a dispatch of id that follows setKey({id, mute: true})
   runs none of its behaviors, and a dispatch of id, not blocked, that
   follows setKey({id, mute: false}) runs every one of them. *)
C12_BulkMute ==
    [][/\ (lastOp'.op = "setKey" /\ BulkMute(lastOp'.arg)) =>
            /\ MapHas(keyMap', lastOp'.arg.id)
            /\ \A i \in 1..Len(keyMap) :
                  /\ keyMap'[i].id = keyMap[i].id
                  /\ keyMap'[i].behaviorMap =
                        IF keyMap[i].id = Get(lastOp'.arg.id)
                        THEN [j \in 1..Len(keyMap[i].behaviorMap) |->
                                [keyMap[i].behaviorMap[j] EXCEPT !.mute = Get(lastOp'.arg.mute)]]
                        ELSE keyMap[i].behaviorMap
       /\ ( /\ lastOp.op = "setKey"
            /\ BulkMute(lastOp.arg)
            /\ DispatchTarget(keyMap, lastOp') = lastOp.arg.id ) =>
            IF Get(lastOp.arg.mute)
            THEN ran' = <<>>
            ELSE ~BindingOf(keyMap, Get(lastOp.arg.id)).block =>
                    ran' = AllRun(Get(lastOp.arg.id),
                                  BindingOf(keyMap, Get(lastOp.arg.id)).behaviorMap)
    ]_vars

(* C12 witness: setKey({id: "quit", mute: true}) has muted both behaviors of
   the Binding "quit" and kept them, next to the Binding "a" *)
C12_BothMuted ==
    /\ lastOp.op = "setKey"
    /\ lastOp.arg = [NoOption EXCEPT !.id = Some(QuitId), !.mute = Some(TRUE)]
    /\ MapHas(keyMap, Some("a"))
    /\ MapHas(keyMap, Some(QuitId))
    /\ BindingOf(keyMap, QuitId).behaviorMap =
          << [behaviorId |-> QuitBehaviorId, mute |-> TRUE, behavior |-> QuitBehavior],
             [behaviorId |-> "b1", mute |-> TRUE, behavior |-> "f"] >>

(* C13: a setKey call that names an existing Binding, by id or else by key,
   changes no other Binding; of the named Binding it writes key only if key
   is given, block only if block is given and delay only if delay is given
   and not 0, each with the given value when the call passes validation;
   with a behaviorId it changes no behavior but the one named, and with
   neither behaviorId nor mute it changes no behavior at all. *)
C13_SetKeyWritesSuppliedOnly ==
    [][( /\ lastOp'.op = "setKey"
         /\ (lastOp'.arg.id # None \/ lastOp'.arg.key # None)
         /\ Named(keyMap, lastOp'.arg) # 0 ) =>
        LET o == lastOp'.arg
            i == Named(keyMap, lastOp'.arg)
            valid == ~FailsValidation(keyMap, lastOp'.arg)
        IN  /\ Len(keyMap') = Len(keyMap)
            /\ \A k \in 1..Len(keyMap) : k # i => keyMap'[k] = keyMap[k]
            /\ keyMap'[i].id = keyMap[i].id
            /\ keyMap'[i].key = IF valid /\ o.key # None THEN o.key ELSE keyMap[i].key
            /\ keyMap'[i].block = IF valid /\ o.block # None
                                  THEN Get(o.block) ELSE keyMap[i].block
            /\ keyMap'[i].delay = IF valid /\ o.delay # None /\ Get(o.delay) # 0
                                  THEN Get(o.delay) ELSE keyMap[i].delay
            /\ o.behaviorId # None =>
                  \A j \in 1..Len(keyMap[i].behaviorMap) :
                      keyMap[i].behaviorMap[j].behaviorId # Get(o.behaviorId)
                      => keyMap'[i].behaviorMap[j] = keyMap[i].behaviorMap[j]
            /\ (o.behaviorId = None /\ o.mute = None) =>
                  keyMap'[i].behaviorMap = keyMap[i].behaviorMap
    ]_vars

(* C13 witness: setKey({id: "a", delay: 0}) has left the delay 100 of the
   Binding "a", and its key and behavior, as they were *)
C13_ZeroDelayKept ==
    /\ lastOp.op = "setKey"
    /\ lastOp.arg = [NoOption EXCEPT !.id = Some("a"), !.delay = Some(0)]
    /\ keyMap = << [id |-> "a", key |-> Some(KeyQ), block |-> FALSE, delay |-> 100,
                    behaviorMap |-> << [behaviorId |-> "b1", mute |-> FALSE,
                                        behavior |-> "f"] >>] >>

(* C14: once a dispatch on a Binding with delay < 0 has set block (the step
   just taken dispatched the Binding and ran its behaviors), a timer expiry
   does not clear that block. *)
C14_TimerKeepsHoldBlock ==
    [][\A id \in Ids :
        ( /\ lastOp.op \in {"press", "keydown"}
          /\ DispatchTarget(keyMap, lastOp) = Some(id)
          /\ IndexOfId(keyMap, id) # 0
          /\ BindingOf(keyMap, id).delay < 0
          /\ BindingOf(keyMap, id).block
          /\ Runs(ran, id, "b1") = 1
          /\ lastOp'.op = "timer" )
        => BindingOf(keyMap', id).block
    ]_vars

(* C15: the expiry of a debounce timer whose Binding has been deleted raises
   no error, runs no behavior and changes nothing in the Key Table, the
   Behavior Tables or the Pressed-Set. *)
C15_TimerAfterDeleteNoOp ==
    [][(lastOp'.op = "timer" /\ lastOp'.arg = None) =>
        /\ ~threw'
        /\ ran' = <<>>
        /\ timers'[None] = timers[None] - 1
        /\ UNCHANGED <<keyMap, pressedKeys, useKeyboard, keyboardInput>>
    ]_vars

(* C15 witness: the timer of the deleted Binding "a" has expired while the
   Key Table holds no Binding, and no timer is left *)
C15_ExpiredOnEmptyTable ==
    /\ lastOp = [op |-> "timer", arg |-> None]
    /\ keyMap = <<>>
    /\ timers = NoTimers
    /\ ~threw

(* C16 as stated: when the timer scheduled by a dispatch of a since deleted
   Binding expires while a Binding created again under the same id is
   blocked, it clears that block. *)
C16_StaleTimerClearsRecreated ==
    [][\A id \in Ids :
        ( /\ lastOp'.op = "timer"
          /\ lastOp'.arg = None
          /\ IndexOfId(keyMap, id) # 0
          /\ BindingOf(keyMap, id).block )
        => ~BindingOf(keyMap', id).block
    ]_vars

(* C16 as amended: a Binding that has just been created, under a new id or
   under the id of a deleted one, has no timer pending on it, and the expiry
   of a timer scheduled by a dispatch of another tuple (a deleted Binding or
   a Binding with another id) never clears its block. *)
C16_StaleTimerMissesRecreated ==
    [][\A id \in Ids :
        /\ (IndexOfId(keyMap, id) = 0 /\ IndexOfId(keyMap', id) # 0)
             => timers'[Some(id)] = 0
        /\ ( /\ lastOp'.op = "timer"
             /\ lastOp'.arg # Some(id)
             /\ IndexOfId(keyMap, id) # 0
             /\ BindingOf(keyMap, id).block )
             => BindingOf(keyMap', id).block
    ]_vars

(* C16 witness: the Binding "a" was dispatched, deleted, created again and
   dispatched again; the timer of the first dispatch has expired and "a" is
   still blocked, waiting for its own timer *)
C16_RecreatedStillBlocked ==
    /\ lastOp = [op |-> "timer", arg |-> None]
    /\ steps = 2
    /\ MapHas(keyMap, Some("a"))
    /\ BindingOf(keyMap, "a").delay = 100
    /\ BindingOf(keyMap, "a").block
    /\ timers[Some("a")] = 1
    /\ timers[None] = 0

IsUnmuted(e) == ~e.mute

IsRepress(e) == e.behavior = Repress

(* the position of the first entry of the table un that presses its own
   Binding again, or 0 *)
FirstRepress(un) ==
    IF \E j \in 1..Len(un) : IsRepress(un[j])
    THEN CHOOSE j \in 1..Len(un) :
            IsRepress(un[j]) /\ \A k \in 1..(j - 1) : ~IsRepress(un[k])
    ELSE 0

(* C17: dispatch step order.  A press or key-down that dispatches a Binding
   (it exists, is not blocked, and none of its unmuted behaviors is the quit
   behavior) runs the unmuted behaviors in insertion order.  With delay > 0
   block is true and the timer scheduled before they run: a behavior that
   presses its own Binding again is suppressed, each behavior runs once.
   With delay < 0 block is false while they run: a behavior that presses
   its own Binding again dispatches it again from the first behavior; when
   no behavior does, block is true afterwards and no timer is scheduled.
   With delay 0 block is not changed and no timer is scheduled. *)
C17_DispatchOrder ==
    [][\A id \in Ids :
        ( /\ lastOp'.op \in {"press", "keydown"}
          /\ DispatchTarget(keyMap, lastOp') = Some(id)
          /\ IndexOfId(keyMap, id) # 0
          /\ ~BindingOf(keyMap, id).block
          /\ \A j \in 1..Len(BindingOf(keyMap, id).behaviorMap) :
                \/ BindingOf(keyMap, id).behaviorMap[j].mute
                \/ BindingOf(keyMap, id).behaviorMap[j].behavior # QuitBehavior )
        => LET delay == BindingOf(keyMap, id).delay
               un == SelectSeq(BindingOf(keyMap, id).behaviorMap, IsUnmuted)
               r == FirstRepress(SelectSeq(BindingOf(keyMap, id).behaviorMap, IsUnmuted))
           IN  /\ delay > 0 =>
                    /\ ran' = AllRun(id, un)
                    /\ ~threw'
                    /\ BindingOf(keyMap', id).block
                    /\ timers' = [timers EXCEPT ![Some(id)] = @ + 1]
               /\ (delay <= 0 /\ r = 0) =>
                    /\ ran' = AllRun(id, un)
                    /\ ~threw'
                    /\ BindingOf(keyMap', id).block = (delay < 0)
                    /\ timers' = timers
               /\ (delay <= 0 /\ r # 0) =>
                    /\ Len(ran') > r
                    /\ SubSeq(ran', 1, r) = SubSeq(AllRun(id, un), 1, r)
                    /\ ran'[r + 1] = AllRun(id, un)[1]
                    /\ timers' = timers
    ]_vars

(* C17 witness: the debounce Binding "a" was dispatched by id; f ran, then
   the behavior that presses "a" again, once each, and "a" is blocked with
   its timer pending *)
C17_RepressSuppressed ==
    /\ lastOp = [op |-> "press", arg |-> [id |-> Some("a"), key |-> None]]
    /\ ran = << <<"a", "b1", "f">>, <<"a", "b2", Repress>> >>
    /\ ~threw
    /\ BindingOf(keyMap, "a").delay = 100
    /\ BindingOf(keyMap, "a").block
    /\ timers[Some("a")] = 1

(* C18: a key-down or a press made while capture mode is active, and that
   leaves it active, runs no behavior other than the quit behavior,
   behaviors registered with setKey after capture was entered included. *)
C18_CaptureRunsOnlyQuit ==
    [][(useKeyboard /\ useKeyboard' /\ lastOp'.op \in {"press", "keydown"}) =>
        \A n \in 1..Len(ran') : ran'[n][3] = QuitBehavior
    ]_vars

(* the service after usingKeyboard(q) and a press of the Binding "quit" *)
EnterExit(q) ==
    press(usingKeyboard(Current, Some(q)), [id |-> Some(QuitId), key |-> None])

(* does the table km hold the behavior e on the Binding id *)
HoldsBehavior(km, id, e) ==
    /\ IndexOfId(km, id) # 0
    /\ \E k \in 1..Len(BindingOf(km, id).behaviorMap) : BindingOf(km, id).behaviorMap[k] = e

(* C19 as stated: entering capture mode and then exiting it leaves every
   behavior that existed before entry with the mute flag it had before
   entry. *)
C19_ExitRestoresMute ==
    ~useKeyboard =>
        \A q \in QuitKeys : \A s2 \in {EnterExit(q)} :
            ~s2.useKeyboard =>
                \A i \in 1..Len(keyMap) : \A j \in 1..Len(keyMap[i].behaviorMap) :
                    HoldsBehavior(s2.keyMap, keyMap[i].id, keyMap[i].behaviorMap[j])

(* C19 as amended: entering capture mode and then exiting it leaves every
   behavior that existed before entry unmuted, whatever its mute flag was
   before entry. *)
C19_ExitUnmutesAll ==
    ~useKeyboard =>
        \A q \in QuitKeys : \A s2 \in {EnterExit(q)} :
            ~s2.useKeyboard =>
                \A i \in 1..Len(keyMap) : \A j \in 1..Len(keyMap[i].behaviorMap) :
                    HoldsBehavior(s2.keyMap, keyMap[i].id,
                                  [keyMap[i].behaviorMap[j] EXCEPT !.mute = FALSE])

(* C19 witness: capture was entered on the Binding "a" whose behavior the
   caller had muted; the key-down of the quit key has ended capture and the
   behavior is unmuted *)
C19_MutedBeforeUnmutedAfter ==
    /\ lastOp = [op |-> "keydown", arg |-> KeyEsc]
    /\ steps = 1
    /\ QuitRan(ran)
    /\ ~useKeyboard
    /\ HoldsBehavior(keyMap, "a", [behaviorId |-> "b1", mute |-> FALSE, behavior |-> "f"])

(* the step just taken dispatched the Binding id and left it blocked *)
BlockedByDispatch(id) ==
    /\ lastOp.op \in {"press", "keydown"}
    /\ DispatchTarget(keyMap, lastOp) = Some(id)
    /\ IndexOfId(keyMap, id) # 0
    /\ BindingOf(keyMap, id).block
    /\ \E n \in 1..Len(ran) : ran[n][1] = id

(* C20: when every scheduled timer expires and every key that is down is
   released, a Binding whose block was set by a dispatch, by key or by id,
   in debounce or in hold mode, is eventually not blocked (or deleted).
   The dispatches looked at are those made before the last call the runs
   allow, so that a run in which the Binding stays blocked is not one cut
   short by MaxSteps. *)
C20_BlockedEventuallyFree ==
    \A id \in Ids :
        (BlockedByDispatch(id) /\ steps < MaxSteps) ~>
            (IndexOfId(keyMap, id) = 0 \/ ~BindingOf(keyMap, id).block)

====
